---- MODULE Spec2Model ----
(***************************************************************************)
(* Model of ext/rb_hashpipe.c: the Ruby binding Hashpipe::Status around    *)
(* libhashpipe's status buffer (hashpipe_status_t) and its FITS-style      *)
(* header codec.  One Status object is a "handle"; the shared segment, its *)
(* lock and the card codec belong to libhashpipe and are modelled at the   *)
(* boundary.                                                               *)
(***************************************************************************)
EXTENDS Integers, Sequences, FiniteSets, TLC

\* ---------------------------------------------------------------- bounds
MaxCards == 3          \* cards a buffer holds besides END (scaled capacity)
MaxNest  == 1          \* nested lock-with-block bodies per handle

\* ------------------------------------------------------- program constants
NULL == 0                           \* s->buf == 0: detached
HASHPIPE_STATUS_RECORD_SIZE == 80   \* width of one card
SHRT_MAX == 32767
SHRT_MIN == -32768
SHRT_MOD == 65536

Handles  == {"h1", "h2"}            \* Status objects, one per process
Ids      == {7, 99}                 \* instance ids
NoHandle == "none"
Creates  == {"omitted", "true", "false"}   \* the optional create argument
Keys     == {"NPKTS", "K2", "K3", "K4"}
IntVals  == {42, 65578}             \* Ruby Integers handed to hputi2/hputi4
Digit    == <<"0", "1", "2", "3", "4", "5", "6", "7", "8", "9">>
StrVals  == { <<"7", "x">> }      \* Ruby Strings handed to hputs
NumTypes == {"i2", "i4"}            \* typecodes of the HGET/HPUT macros modelled

VARIABLES
  segs,           \* instance ids whose segment exists (IPC layer)
  buf,            \* buf[id]: the cards of the segment's header, END excluded
  locked,         \* locked[id]: the segment's lock is taken
  holds,          \* holds[h]: ids whose lock h acquired and has not released since
  s_buf,          \* s->buf of each handle: the id it is attached to, or NULL
  s_instance_id,  \* s->instance_id of each handle
  pc,             \* where each handle's thread is: idle or inside a blocking region
  tmp,            \* arguments of the call a handle is blocked in
  depth,          \* lock-with-block bodies a handle is currently inside
  actor,          \* who took the last step
  ret             \* outcome of the last call

vars == <<segs, buf, locked, holds, s_buf, s_instance_id, pc, tmp, depth, actor, ret>>

\* the outcome of a call: err = "ok" is a normal return, anything else the exception
Ret(op, arg, err, val, prims) ==
  [op |-> op, arg |-> arg, err |-> err, val |-> val, prims |-> prims]

Nil == <<>>              \* Qnil / absent
Some(v) == <<v>>

Attached(h) == s_buf[h] # NULL

\* ------------------------------------------------------------ header codec
\* A card is [key, val, str]: val the text of the value field, a sequence of
\* characters; str: the value field is a quoted string.
Card(k, text, isStr) == [key |-> k, val |-> text, str |-> isStr]

RECURSIVE NatToText(_)
NatToText(n) ==
  IF n < 10 THEN <<Digit[n + 1]>>
  ELSE Append(NatToText(n \div 10), Digit[(n % 10) + 1])

\* the base-10 ASCII text hputi2/hputi4 write into the value field
IntToText(n) == IF n < 0 THEN <<"-">> \o NatToText(-n) ELSE NatToText(n)

IsDigit(c) == \E d \in 1..10 : Digit[d] = c
DigitVal(c) == (CHOOSE d \in 1..10 : Digit[d] = c) - 1

RECURSIVE DigitsVal(_, _)
DigitsVal(t, acc) ==
  IF t = <<>> \/ ~IsDigit(Head(t)) THEN acc
  ELSE DigitsVal(Tail(t), acc * 10 + DigitVal(Head(t)))

\* the number hgeti2/hgeti4 read from a value field: optional sign, leading digits
TextToInt(t) ==
  IF t # <<>> /\ Head(t) = "-" THEN 0 - DigitsVal(Tail(t), 0) ELSE DigitsVal(t, 0)

\* index of the card holding key k, 0 when absent
Find(b, k) ==
  IF \E i \in 1..Len(b) : b[i].key = k
  THEN CHOOSE i \in 1..Len(b) : b[i].key = k
  ELSE 0

\* hput*: overwrite in place, else append before END when a slot is left;
\* a nonzero result says the header length is exceeded
hput_rc(b, k) == IF Find(b, k) = 0 /\ Len(b) >= MaxCards THEN 1 ELSE 0

hput_buf(b, card) ==
  IF Find(b, card.key) # 0 THEN [b EXCEPT ![Find(b, card.key)] = card]
  ELSE IF Len(b) < MaxCards THEN Append(b, card)
  ELSE b

\* hdel: the later cards (END included) move one slot up
hdel(b, k) ==
  IF Find(b, k) = 0 THEN b
  ELSE SubSeq(b, 1, Find(b, k) - 1) \o SubSeq(b, Find(b, k) + 1, Len(b))

\* gethlength: offset of END plus END's own width
gethlength(b) == (Len(b) + 1) * HASHPIPE_STATUS_RECORD_SIZE

\* hgets into val[HASHPIPE_STATUS_RECORD_SIZE], the last byte forced to NUL
hgets(b, k) ==
  IF Find(b, k) = 0 THEN Nil
  ELSE LET t == b[Find(b, k)].val
       IN Some(IF Len(t) < HASHPIPE_STATUS_RECORD_SIZE THEN t
               ELSE SubSeq(t, 1, HASHPIPE_STATUS_RECORD_SIZE - 1))

\* hgeti2 keeps the number inside short; hgeti4 inside int
hget(tc, b, k) ==
  IF Find(b, k) = 0 THEN Nil
  ELSE LET n == TextToInt(b[Find(b, k)].val)
       IN Some(IF tc = "i2" /\ n > SHRT_MAX THEN SHRT_MAX
               ELSE IF tc = "i2" /\ n < SHRT_MIN THEN SHRT_MIN
               ELSE n)

\* type val = (type)conv(vval) of HPUT: i2 is (short)NUM2INT(v), i4 is (int)NUM2INT(v)
Cast(tc, v) ==
  IF tc = "i2" THEN ((v - SHRT_MIN) % SHRT_MOD) + SHRT_MIN ELSE v

\* ------------------------------------------------------------ IPC boundary
hashpipe_status_exists(id) == id \in segs

\* open-or-create: rc = 0 creates the segment when missing (empty header) and binds it
attach_segs(id, rc) == IF rc = 0 THEN segs \cup {id} ELSE segs
attach_buf(id, rc) == IF rc = 0 /\ id \notin segs THEN [buf EXCEPT ![id] = <<>>] ELSE buf

\* lock_acquire blocks while the lock is taken; rc # 0 is a primitive failure
lock_free(id) == ~locked[id]

\* lock_release: rc = 0 frees the lock, whoever calls
hashpipe_status_unlock(id, rc) ==
  IF rc = 0 THEN [locked EXCEPT ![id] = FALSE] ELSE locked

Init ==
  /\ segs = {}
  /\ buf = [i \in Ids |-> <<>>]
  /\ locked = [i \in Ids |-> FALSE]
  /\ holds = [h \in Handles |-> {}]
  /\ s_buf = [h \in Handles |-> NULL]
  /\ s_instance_id = [h \in Handles |-> 0]
  /\ pc = [h \in Handles |-> "idle"]
  /\ tmp = [h \in Handles |-> Nil]
  /\ depth = [h \in Handles |-> 0]
  /\ actor = NoHandle
  /\ ret = Ret("new", Nil, "ok", Nil, {})

\* ------------------------------------------------------------- lifecycle
ExistsPrims(create) == IF create = "false" THEN {"hashpipe_status_exists"} ELSE {}

\* rb_hps_attach without the existence check of lines 94-96
rb_hps_attach_unchecked(h, id, create) ==
  /\ pc[h] = "idle"
  /\ actor' = h
  /\ IF s_buf[h] # NULL
     THEN /\ ret' = Ret("attach", <<id, create>>, "AlreadyAttached", Nil, {})
          /\ UNCHANGED <<pc, tmp>>
     ELSE /\ pc' = [pc EXCEPT ![h] = "in_attach"]
          /\ tmp' = [tmp EXCEPT ![h] = <<id>>]
          /\ ret' = Ret("attach", <<id, create>>, "blocked", Nil, {})
  /\ UNCHANGED <<segs, buf, locked, holds, s_buf, s_instance_id, depth>>

\* rb_hps_attach up to the blocking region (lines 88-105)
rb_hps_attach(h, id, create) ==
  /\ pc[h] = "idle"
  /\ actor' = h
  /\ IF create = "false" /\ ~hashpipe_status_exists(id)
     THEN /\ ret' = Ret("attach", <<id, create>>, "NotFound", Nil, ExistsPrims(create))
          /\ UNCHANGED <<pc, tmp>>
     ELSE IF s_buf[h] # NULL
     THEN /\ ret' = Ret("attach", <<id, create>>, "AlreadyAttached", Nil, ExistsPrims(create))
          /\ UNCHANGED <<pc, tmp>>
     ELSE /\ pc' = [pc EXCEPT ![h] = "in_attach"]
          /\ tmp' = [tmp EXCEPT ![h] = <<id>>]
          /\ ret' = Ret("attach", <<id, create>>, "blocked", Nil, ExistsPrims(create))
  /\ UNCHANGED <<segs, buf, locked, holds, s_buf, s_instance_id, depth>>

\* the blocking region handed the handle's own struct instead of tmp: instance_id
\* is written before the primitive has succeeded
rb_hps_attach_in_place(h, rc) ==
  /\ pc[h] = "in_attach"
  /\ actor' = h
  /\ LET id == tmp[h][1]
         prims == {"hashpipe_status_attach"}
     IN /\ segs' = attach_segs(id, rc)
        /\ buf' = attach_buf(id, rc)
        /\ s_instance_id' = [s_instance_id EXCEPT ![h] = id]
        /\ IF rc # 0
           THEN /\ ret' = Ret("attach", tmp[h] \o <<rc>>, "AttachFailed", Nil, prims)
                /\ UNCHANGED s_buf
           ELSE /\ s_buf' = [s_buf EXCEPT ![h] = id]
                /\ ret' = Ret("attach", tmp[h] \o <<rc>>, "ok", Nil, prims)
  /\ pc' = [pc EXCEPT ![h] = "idle"]
  /\ tmp' = [tmp EXCEPT ![h] = Nil]
  /\ UNCHANGED <<locked, holds, depth>>

\* the blocking region of rb_hps_attach and what follows it (lines 47-57, 103-112)
rb_hps_attach_blocking_func(h, rc) ==
  /\ pc[h] = "in_attach"
  /\ actor' = h
  /\ LET id == tmp[h][1]
         prims == {"hashpipe_status_attach"}
     IN /\ segs' = attach_segs(id, rc)
        /\ buf' = attach_buf(id, rc)
        /\ IF rc # 0
           THEN /\ ret' = Ret("attach", tmp[h] \o <<rc>>, "AttachFailed", Nil, prims)
                /\ UNCHANGED <<s_buf, s_instance_id>>
           ELSE /\ s_buf' = [s_buf EXCEPT ![h] = id]
                /\ s_instance_id' = [s_instance_id EXCEPT ![h] = id]
                /\ ret' = Ret("attach", tmp[h] \o <<rc>>, "ok", Nil, prims)
  /\ pc' = [pc EXCEPT ![h] = "idle"]
  /\ tmp' = [tmp EXCEPT ![h] = Nil]
  /\ UNCHANGED <<locked, holds, depth>>

\* rb_hps_detach that clears s->buf before looking at rc
rb_hps_detach_clears_first(h, rc) ==
  /\ pc[h] = "idle"
  /\ actor' = h
  /\ IF s_buf[h] # NULL
     THEN /\ s_buf' = [s_buf EXCEPT ![h] = NULL]
          /\ ret' = Ret("detach", <<rc>>, IF rc # 0 THEN "DetachFailed" ELSE "ok", Nil,
                        {"hashpipe_status_detach"})
     ELSE /\ ret' = Ret("detach", Nil, "ok", Nil, {})
          /\ UNCHANGED s_buf
  /\ UNCHANGED <<segs, buf, locked, holds, s_instance_id, pc, tmp, depth>>

\* rb_hps_detach (lines 132-149); rc is hashpipe_status_detach's result
rb_hps_detach(h, rc) ==
  /\ pc[h] = "idle"
  /\ actor' = h
  /\ IF s_buf[h] # NULL
     THEN IF rc # 0
          THEN /\ ret' = Ret("detach", <<rc>>, "DetachFailed", Nil, {"hashpipe_status_detach"})
               /\ UNCHANGED s_buf
          ELSE /\ s_buf' = [s_buf EXCEPT ![h] = NULL]
               /\ ret' = Ret("detach", <<rc>>, "ok", Nil, {"hashpipe_status_detach"})
     ELSE /\ ret' = Ret("detach", Nil, "ok", Nil, {})
          /\ UNCHANGED s_buf
  /\ UNCHANGED <<segs, buf, locked, holds, s_instance_id, pc, tmp, depth>>

\* rb_hps_attached_p (lines 156-163)
rb_hps_attached_p(h) ==
  /\ pc[h] = "idle"
  /\ actor' = h
  /\ ret' = Ret("attached?", Nil, "ok", Some(s_buf[h] # NULL), {})
  /\ UNCHANGED <<segs, buf, locked, holds, s_buf, s_instance_id, pc, tmp, depth>>

\* rb_hps_instance_id that returns s->instance_id without looking at s->buf
rb_hps_instance_id_stale(h) ==
  /\ pc[h] = "idle"
  /\ actor' = h
  /\ ret' = Ret("instance_id", Nil, "ok", Some(s_instance_id[h]), {})
  /\ UNCHANGED <<segs, buf, locked, holds, s_buf, s_instance_id, pc, tmp, depth>>

\* rb_hps_instance_id (lines 170-177)
rb_hps_instance_id(h) ==
  /\ pc[h] = "idle"
  /\ actor' = h
  /\ ret' = Ret("instance_id", Nil, "ok",
               IF s_buf[h] # NULL THEN Some(s_instance_id[h]) ELSE Nil, {})
  /\ UNCHANGED <<segs, buf, locked, holds, s_buf, s_instance_id, pc, tmp, depth>>

\* another process removes a segment nobody of ours is attached to (IPC layer's destroy)
EnvDestroy(id) ==
  /\ id \in segs
  /\ \A h \in Handles : s_buf[h] # id
  /\ actor' = "env"
  /\ segs' = segs \ {id}
  /\ buf' = [buf EXCEPT ![id] = <<>>]
  /\ locked' = [locked EXCEPT ![id] = FALSE]
  /\ holds' = [h \in Handles |-> holds[h] \ {id}]
  /\ ret' = Ret("destroy", Some(id), "ok", Nil, {})
  /\ UNCHANGED <<s_buf, s_instance_id, pc, tmp, depth>>

\* another process creates a segment through the IPC layer's open-or-create
EnvCreate(id) ==
  /\ id \notin segs
  /\ actor' = "env"
  /\ segs' = segs \cup {id}
  /\ buf' = [buf EXCEPT ![id] = <<>>]
  /\ locked' = [locked EXCEPT ![id] = FALSE]
  /\ ret' = Ret("create", Some(id), "ok", Nil, {})
  /\ UNCHANGED <<holds, s_buf, s_instance_id, pc, tmp, depth>>

\* ---------------------------------------------------------------- locking
\* Data_Get_HPStruct_Ensure_Attached then hashpipe_status_unlock (lines 190-195):
\* the exception rb_hps_unlock ends with ("ok": none) and the lock it leaves
unlock_err(h, rc) ==
  IF s_buf[h] = NULL THEN "NotAttached"
  ELSE IF rc # 0 THEN "UnlockError" ELSE "ok"

unlock_locked(h, rc) ==
  IF s_buf[h] = NULL THEN locked ELSE hashpipe_status_unlock(s_buf[h], rc)

unlock_holds(h, rc) ==
  IF unlock_err(h, rc) = "ok" THEN [holds EXCEPT ![h] = @ \ {s_buf[h]}] ELSE holds

unlock_prims(h) == IF s_buf[h] = NULL THEN {} ELSE {"hashpipe_status_unlock"}

\* rb_hps_unlock that returns without calling hashpipe_status_unlock: the handle
\* believes it released, the lock stays taken
rb_hps_unlock_not_released(h, rc) ==
  /\ pc[h] = "idle"
  /\ actor' = h
  /\ holds' = IF s_buf[h] = NULL THEN holds ELSE [holds EXCEPT ![h] = @ \ {s_buf[h]}]
  /\ ret' = Ret("unlock", Nil, IF s_buf[h] = NULL THEN "NotAttached" ELSE "ok", Nil, {})
  /\ UNCHANGED <<segs, buf, locked, s_buf, s_instance_id, pc, tmp, depth>>

\* rb_hps_unlock (lines 185-198)
rb_hps_unlock(h, rc) ==
  /\ pc[h] = "idle"
  /\ actor' = h
  /\ locked' = unlock_locked(h, rc)
  /\ holds' = unlock_holds(h, rc)
  /\ ret' = Ret("unlock", Nil, unlock_err(h, rc), Nil, unlock_prims(h))
  /\ UNCHANGED <<segs, buf, s_buf, s_instance_id, pc, tmp, depth>>

\* rb_hps_lock up to the blocking region (lines 216-225); block: a block is given
rb_hps_lock(h, block) ==
  /\ pc[h] = "idle"
  /\ block => depth[h] < MaxNest
  /\ actor' = h
  /\ IF s_buf[h] = NULL
     THEN /\ ret' = Ret("lock", <<block>>, "NotAttached", Nil, {})
          /\ UNCHANGED <<pc, tmp>>
     ELSE /\ pc' = [pc EXCEPT ![h] = "in_lock"]
          /\ tmp' = [tmp EXCEPT ![h] = <<block>>]
          /\ ret' = Ret("lock", <<block>>, "blocked", Nil, {})
  /\ UNCHANGED <<segs, buf, locked, holds, s_buf, s_instance_id, depth>>

\* rb_hps_lock that does not raise on a lock error: the caller goes on as if it
\* had the lock
rb_hps_lock_error_ignored(h, rc) ==
  /\ pc[h] = "in_lock"
  /\ rc = 0 => lock_free(s_buf[h])
  /\ actor' = h
  /\ pc' = [pc EXCEPT ![h] = "idle"]
  /\ tmp' = [tmp EXCEPT ![h] = Nil]
  /\ locked' = IF rc = 0 THEN [locked EXCEPT ![s_buf[h]] = TRUE] ELSE locked
  /\ holds' = [holds EXCEPT ![h] = @ \cup {s_buf[h]}]
  /\ IF tmp[h][1]
     THEN /\ depth' = [depth EXCEPT ![h] = @ + 1]
          /\ ret' = Ret("lock", tmp[h] \o <<rc>>, "yield", Nil, {"hashpipe_status_lock"})
     ELSE /\ depth' = depth
          /\ ret' = Ret("lock", tmp[h] \o <<rc>>, "ok", Nil, {"hashpipe_status_lock"})
  /\ UNCHANGED <<segs, buf, s_buf, s_instance_id>>

\* rb_hps_lock that hands a given block to rb_ensure whatever hashpipe_status_lock
\* returned: the body runs without the lock
rb_hps_lock_yields_on_error(h, rc) ==
  /\ pc[h] = "in_lock"
  /\ rc = 0 => lock_free(s_buf[h])
  /\ actor' = h
  /\ pc' = [pc EXCEPT ![h] = "idle"]
  /\ tmp' = [tmp EXCEPT ![h] = Nil]
  /\ locked' = IF rc = 0 THEN [locked EXCEPT ![s_buf[h]] = TRUE] ELSE locked
  /\ holds' = IF rc = 0 THEN [holds EXCEPT ![h] = @ \cup {s_buf[h]}] ELSE holds
  /\ IF tmp[h][1]
     THEN /\ depth' = [depth EXCEPT ![h] = @ + 1]
          /\ ret' = Ret("lock", tmp[h] \o <<rc>>, "yield", Nil, {"hashpipe_status_lock"})
     ELSE /\ depth' = depth
          /\ ret' = Ret("lock", tmp[h] \o <<rc>>, IF rc # 0 THEN "LockError" ELSE "ok",
                        Nil, {"hashpipe_status_lock"})
  /\ UNCHANGED <<segs, buf, s_buf, s_instance_id>>

\* the blocking region of rb_hps_lock and what follows it (lines 203-208, 227-235):
\* rc = 0 once the lock is free; with a block the body starts (rb_yield);
\* arg: block given, rc
rb_hps_lock_blocking_func(h, rc) ==
  /\ pc[h] = "in_lock"
  /\ rc = 0 => lock_free(s_buf[h])
  /\ actor' = h
  /\ pc' = [pc EXCEPT ![h] = "idle"]
  /\ tmp' = [tmp EXCEPT ![h] = Nil]
  /\ IF rc # 0
     THEN /\ ret' = Ret("lock", tmp[h] \o <<rc>>, "LockError", Nil, {"hashpipe_status_lock"})
          /\ UNCHANGED <<locked, holds, depth>>
     ELSE /\ locked' = [locked EXCEPT ![s_buf[h]] = TRUE]
          /\ holds' = [holds EXCEPT ![h] = @ \cup {s_buf[h]}]
          /\ IF tmp[h][1]
             THEN /\ depth' = [depth EXCEPT ![h] = @ + 1]
                  /\ ret' = Ret("lock", tmp[h] \o <<rc>>, "yield", Nil, {"hashpipe_status_lock"})
             ELSE /\ depth' = depth
                  /\ ret' = Ret("lock", tmp[h] \o <<rc>>, "ok", Nil, {"hashpipe_status_lock"})
  /\ UNCHANGED <<segs, buf, s_buf, s_instance_id>>

BodyOutcomes == {"ok", "BodyError"}

\* the end of a block given to lock: rb_ensure runs rb_hps_unlock, whose exception
\* replaces the body's outcome (line 233)
rb_ensure_unlock(h, outcome, rc) ==
  /\ pc[h] = "idle"
  /\ depth[h] > 0
  /\ actor' = h
  /\ depth' = [depth EXCEPT ![h] = @ - 1]
  /\ locked' = unlock_locked(h, rc)
  /\ holds' = unlock_holds(h, rc)
  /\ ret' = Ret("lock_block", <<outcome>>,
               IF unlock_err(h, rc) # "ok" THEN unlock_err(h, rc) ELSE outcome,
               Nil, unlock_prims(h))
  /\ UNCHANGED <<segs, buf, s_buf, s_instance_id, pc, tmp>>

\* rb_hps_clear_bang up to the blocking region (lines 253-261)
rb_hps_clear_bang(h) ==
  /\ pc[h] = "idle"
  /\ actor' = h
  /\ IF s_buf[h] = NULL
     THEN /\ ret' = Ret("clear", Nil, "NotAttached", Nil, {})
          /\ UNCHANGED pc
     ELSE /\ pc' = [pc EXCEPT ![h] = "in_clear"]
          /\ ret' = Ret("clear", Nil, "blocked", Nil, {})
  /\ UNCHANGED <<segs, buf, locked, holds, s_buf, s_instance_id, tmp, depth>>

\* a clear! whose blocking region returns without running hashpipe_status_clear
rb_hps_clear_not_run(h) ==
  /\ pc[h] = "in_clear"
  /\ lock_free(s_buf[h])
  /\ actor' = h
  /\ pc' = [pc EXCEPT ![h] = "idle"]
  /\ ret' = Ret("clear", <<gethlength(buf[s_buf[h]])>>, "ok", Nil, {})
  /\ UNCHANGED <<segs, buf, locked, holds, s_buf, s_instance_id, tmp, depth>>

\* hashpipe_status_clear run in the blocking region (lines 240-245, 263): it takes
\* the lock, leaves a lone END card and releases the lock; arg: the length cleared
rb_hps_clear_blocking_func(h) ==
  /\ pc[h] = "in_clear"
  /\ lock_free(s_buf[h])
  /\ actor' = h
  /\ pc' = [pc EXCEPT ![h] = "idle"]
  /\ buf' = [buf EXCEPT ![s_buf[h]] = <<>>]
  /\ ret' = Ret("clear", <<gethlength(buf[s_buf[h]])>>, "ok", Nil, {"hashpipe_status_clear"})
  /\ UNCHANGED <<segs, locked, holds, s_buf, s_instance_id, tmp, depth>>

\* --------------------------------------------------------- typed accessors
\* HGET(typecode, type, conv) (lines 283-301)
rb_hps_hget(h, tc, key) ==
  /\ pc[h] = "idle"
  /\ actor' = h
  /\ ret' = IF s_buf[h] = NULL
            THEN Ret("hget", <<tc, key>>, "NotAttached", Nil, {})
            ELSE Ret("hget", <<tc, key>>, "ok", hget(tc, buf[s_buf[h]], key), {"hget"})
  /\ UNCHANGED <<segs, buf, locked, holds, s_buf, s_instance_id, pc, tmp, depth>>

\* rb_hps_hgets (lines 303-313)
rb_hps_hgets(h, key) ==
  /\ pc[h] = "idle"
  /\ actor' = h
  /\ ret' = IF s_buf[h] = NULL
            THEN Ret("hgets", <<key>>, "NotAttached", Nil, {})
            ELSE Ret("hgets", <<key>>, "ok", hgets(buf[s_buf[h]], key), {"hgets"})
  /\ UNCHANGED <<segs, buf, locked, holds, s_buf, s_instance_id, pc, tmp, depth>>

\* rb_hps_delete that returns the value and leaves the card in place
rb_hps_delete_no_hdel(h, key) ==
  /\ pc[h] = "idle"
  /\ actor' = h
  /\ ret' = IF s_buf[h] = NULL
            THEN Ret("delete", <<key>>, "NotAttached", Nil, {})
            ELSE Ret("delete", <<key>>, "ok", hgets(buf[s_buf[h]], key), {"hgets"})
  /\ UNCHANGED <<segs, buf, locked, holds, s_buf, s_instance_id, pc, tmp, depth>>

\* rb_hps_delete (lines 315-332): the value rb_hps_hgets gives, then hdel when found
rb_hps_delete(h, key) ==
  /\ pc[h] = "idle"
  /\ actor' = h
  /\ IF s_buf[h] = NULL
     THEN /\ ret' = Ret("delete", <<key>>, "NotAttached", Nil, {})
          /\ UNCHANGED buf
     ELSE LET val == hgets(buf[s_buf[h]], key)
          IN IF val # Nil
             THEN /\ buf' = [buf EXCEPT ![s_buf[h]] = hdel(@, key)]
                  /\ ret' = Ret("delete", <<key>>, "ok", val, {"hgets", "hdel"})
             ELSE /\ ret' = Ret("delete", <<key>>, "ok", val, {"hgets"})
                  /\ UNCHANGED buf
  /\ UNCHANGED <<segs, locked, holds, s_buf, s_instance_id, pc, tmp, depth>>

\* an HPUT that releases the lock after writing, as if each put were its own section
rb_hps_hput_unlocks(h, tc, key, v) ==
  /\ pc[h] = "idle"
  /\ actor' = h
  /\ IF s_buf[h] = NULL
     THEN /\ ret' = Ret("hput", <<tc, key, v>>, "NotAttached", Nil, {})
          /\ UNCHANGED <<buf, locked, holds>>
     ELSE /\ buf' = [buf EXCEPT ![s_buf[h]] =
                       hput_buf(@, Card(key, IntToText(Cast(tc, v)), FALSE))]
          /\ locked' = [locked EXCEPT ![s_buf[h]] = FALSE]
          /\ holds' = [holds EXCEPT ![h] = @ \ {s_buf[h]}]
          /\ ret' = Ret("hput", <<tc, key, v>>, "ok", Nil, {"hput"})
  /\ UNCHANGED <<segs, s_buf, s_instance_id, pc, tmp, depth>>

\* HPUT(typecode, type, conv) (lines 334-352): rc is assigned and never looked at
rb_hps_hput(h, tc, key, v) ==
  /\ pc[h] = "idle"
  /\ actor' = h
  /\ IF s_buf[h] = NULL
     THEN /\ ret' = Ret("hput", <<tc, key, v>>, "NotAttached", Nil, {})
          /\ UNCHANGED buf
     ELSE /\ buf' = [buf EXCEPT ![s_buf[h]] =
                       hput_buf(@, Card(key, IntToText(Cast(tc, v)), FALSE))]
          /\ ret' = Ret("hput", <<tc, key, v>>, "ok", Nil, {"hput"})
  /\ UNCHANGED <<segs, locked, holds, s_buf, s_instance_id, pc, tmp, depth>>

\* rb_hps_hputs (lines 354-367): a nonzero rc raises "header length exceeded"
rb_hps_hputs(h, key, sv) ==
  /\ pc[h] = "idle"
  /\ actor' = h
  /\ IF s_buf[h] = NULL
     THEN /\ ret' = Ret("hputs", <<key, sv>>, "NotAttached", Nil, {})
          /\ UNCHANGED buf
     ELSE /\ buf' = [buf EXCEPT ![s_buf[h]] = hput_buf(@, Card(key, sv, TRUE))]
          /\ ret' = Ret("hputs", <<key, sv>>,
                        IF hput_rc(buf[s_buf[h]], key) # 0 THEN "CapacityExceeded" ELSE "ok",
                        Nil, {"hputs"})
  /\ UNCHANGED <<segs, locked, holds, s_buf, s_instance_id, pc, tmp, depth>>

\* rb_hps_buf (lines 266-274): the bytes up to and including END
rb_hps_buf(h) ==
  /\ pc[h] = "idle"
  /\ actor' = h
  /\ ret' = IF s_buf[h] = NULL
            THEN Ret("buf", Nil, "NotAttached", Nil, {})
            ELSE Ret("buf", Nil, "ok", Some(buf[s_buf[h]]), {"gethlength"})
  /\ UNCHANGED <<segs, buf, locked, holds, s_buf, s_instance_id, pc, tmp, depth>>

\* rb_hps_length without Data_Get_HPStruct_Ensure_Attached: a detached handle's
\* s->buf is handed to gethlength
rb_hps_length_unchecked(h) ==
  /\ pc[h] = "idle"
  /\ actor' = h
  /\ ret' = Ret("length", Nil, "ok",
               Some(gethlength(IF s_buf[h] = NULL THEN <<>> ELSE buf[s_buf[h]])),
               {"gethlength"})
  /\ UNCHANGED <<segs, buf, locked, holds, s_buf, s_instance_id, pc, tmp, depth>>

\* rb_hps_length (lines 276-281)
rb_hps_length(h) ==
  /\ pc[h] = "idle"
  /\ actor' = h
  /\ ret' = IF s_buf[h] = NULL
            THEN Ret("length", Nil, "NotAttached", Nil, {})
            ELSE Ret("length", Nil, "ok", Some(gethlength(buf[s_buf[h]])), {"gethlength"})
  /\ UNCHANGED <<segs, buf, locked, holds, s_buf, s_instance_id, pc, tmp, depth>>

\* ---------------------------------------------------------- specifications
Rcs == {0, 1}        \* a primitive's result: 0 success, nonzero failure

\* Lifecycle and locking: two handles, two instance ids, other processes
\* destroying segments.  No card is written, so every header stays empty.
Next ==
  \/ \E h \in Handles, id \in Ids, create \in Creates : rb_hps_attach(h, id, create)
  \/ \E h \in Handles, rc \in Rcs : rb_hps_attach_blocking_func(h, rc)
  \/ \E h \in Handles, rc \in Rcs : rb_hps_detach(h, rc)
  \/ \E h \in Handles : rb_hps_attached_p(h)
  \/ \E h \in Handles : rb_hps_instance_id(h)
  \/ \E h \in Handles, block \in BOOLEAN : rb_hps_lock(h, block)
  \/ \E h \in Handles, rc \in Rcs : rb_hps_lock_blocking_func(h, rc)
  \/ \E h \in Handles, rc \in Rcs : rb_hps_unlock(h, rc)
  \/ \E h \in Handles, o \in BodyOutcomes, rc \in Rcs : rb_ensure_unlock(h, o, rc)
  \/ \E h \in Handles : rb_hps_clear_bang(h)
  \/ \E h \in Handles : rb_hps_clear_blocking_func(h)
  \/ \E id \in Ids : EnvDestroy(id)

Spec == Init /\ [][Next]_vars

\* The codec through one handle on instance 7: every accessor, with the handle's
\* own attach, detach, lock, unlock and clear.
CodecHandles == {"h1"}
CodecIds == {7}

NextCodec ==
  \/ \E h \in CodecHandles, id \in CodecIds, create \in Creates : rb_hps_attach(h, id, create)
  \/ \E h \in CodecHandles, rc \in Rcs : rb_hps_attach_blocking_func(h, rc)
  \/ \E h \in CodecHandles, rc \in Rcs : rb_hps_detach(h, rc)
  \/ \E h \in CodecHandles : rb_hps_lock(h, FALSE)
  \/ \E h \in CodecHandles, rc \in Rcs : rb_hps_lock_blocking_func(h, rc)
  \/ \E h \in CodecHandles, rc \in Rcs : rb_hps_unlock(h, rc)
  \/ \E h \in CodecHandles : rb_hps_clear_bang(h)
  \/ \E h \in CodecHandles : rb_hps_clear_blocking_func(h)
  \/ \E h \in CodecHandles, tc \in NumTypes, k \in Keys : rb_hps_hget(h, tc, k)
  \/ \E h \in CodecHandles, k \in Keys : rb_hps_hgets(h, k)
  \/ \E h \in CodecHandles, k \in Keys : rb_hps_delete(h, k)
  \/ \E h \in CodecHandles, tc \in NumTypes, k \in Keys, v \in IntVals : rb_hps_hput(h, tc, k, v)
  \/ \E h \in CodecHandles, k \in Keys, sv \in StrVals : rb_hps_hputs(h, k, sv)
  \/ \E h \in CodecHandles : rb_hps_buf(h)
  \/ \E h \in CodecHandles : rb_hps_length(h)

SpecCodec == Init /\ [][NextCodec]_vars

\* Two handles on instance 7 that honour the lock protocol: attach, then
\* lock -> reads and writes -> unlock again and again (plain or with a block); clear!,
\* which locks by itself, is called outside a locked section.
ProtoIds == {7}
ProtoKeys == {"NPKTS", "K2"}
InSection(h) == s_buf[h] # NULL /\ s_buf[h] \in holds[h]

NextProto ==
  \/ \E h \in Handles, id \in ProtoIds :
       ~Attached(h) /\ rb_hps_attach(h, id, "omitted")
  \/ \E h \in Handles : rb_hps_attach_blocking_func(h, 0)
  \/ \E h \in Handles, block \in BOOLEAN :
       Attached(h) /\ holds[h] = {} /\ rb_hps_lock(h, block)
  \/ \E h \in Handles, rc \in Rcs : rb_hps_lock_blocking_func(h, rc)
  \/ \E h \in Handles, tc \in NumTypes, k \in ProtoKeys, v \in IntVals :
       InSection(h) /\ rb_hps_hput(h, tc, k, v)
  \/ \E h \in Handles, k \in ProtoKeys, sv \in StrVals :
       InSection(h) /\ rb_hps_hputs(h, k, sv)
  \/ \E h \in Handles, k \in ProtoKeys : InSection(h) /\ rb_hps_delete(h, k)
  \/ \E h \in Handles, tc \in NumTypes, k \in ProtoKeys :
       InSection(h) /\ rb_hps_hget(h, tc, k)
  \/ \E h \in Handles, k \in ProtoKeys : InSection(h) /\ rb_hps_hgets(h, k)
  \/ \E h \in Handles, rc \in Rcs :
       InSection(h) /\ depth[h] = 0 /\ rb_hps_unlock(h, rc)
  \/ \E h \in Handles, o \in BodyOutcomes, rc \in Rcs :
       InSection(h) /\ rb_ensure_unlock(h, o, rc)
  \/ \E h \in Handles : Attached(h) /\ holds[h] = {} /\ rb_hps_clear_bang(h)
  \/ \E h \in Handles : rb_hps_clear_blocking_func(h)

SpecProto == Init /\ [][NextProto]_vars

\* Blocking and waking: two handles on instance 7 that honour the lock protocol
\* and release what they hold.  A nonzero rc out of a blocking region stands for
\* the primitive interrupted by the unblocking function (RUBY_UBF_PROCESS, lines
\* 103-104 and 225-226) on a process signal, or failing by itself.
Release(h) ==
  /\ InSection(h)
  /\ \/ depth[h] = 0 /\ rb_hps_unlock(h, 0)
     \/ \E o \in BodyOutcomes : rb_ensure_unlock(h, o, 0)

Acquire(h) == rb_hps_lock_blocking_func(h, 0)

Interrupt(h) ==
  \/ rb_hps_lock_blocking_func(h, 1)
  \/ rb_hps_attach_blocking_func(h, 1)

NextLive ==
  \/ \E h \in Handles, id \in ProtoIds :
       ~Attached(h) /\ rb_hps_attach(h, id, "omitted")
  \/ \E h \in Handles : rb_hps_attach_blocking_func(h, 0)
  \/ \E h \in Handles, block \in BOOLEAN :
       Attached(h) /\ holds[h] = {} /\ rb_hps_lock(h, block)
  \/ \E h \in Handles : Acquire(h)
  \/ \E h \in Handles : Interrupt(h)
  \/ \E h \in Handles : Release(h)
  \/ \E h \in Handles, rc \in Rcs :
       Attached(h) /\ holds[h] = {} /\ rb_hps_detach(h, rc)

\* the holder of a lock goes on to release it; the lock primitive wakes a waiter
\* that finds the lock free again and again
FairLive ==
  \A h \in Handles : WF_vars(Release(h)) /\ SF_vars(Acquire(h))

SpecLive == Init /\ [][NextLive]_vars /\ FairLive

\* attach with create = false, and nothing else creating on the handles' side,
\* while other processes create and destroy segments
NextRace ==
  \/ \E h \in Handles, id \in Ids : rb_hps_attach(h, id, "false")
  \/ \E h \in Handles, rc \in Rcs : rb_hps_attach_blocking_func(h, rc)
  \/ \E h \in Handles, rc \in Rcs : rb_hps_detach(h, rc)
  \/ \E id \in Ids : EnvCreate(id)
  \/ \E id \in Ids : EnvDestroy(id)

SpecRace == Init /\ [][NextRace]_vars

\* ------------------------------------------------------------------ claims
\* C1: with two handles on one instance, each doing lock -> writes -> unlock, at
\* most one handle holds the lock at any time, and while a handle holds the lock
\* the buffer changes by that handle's own calls only, so what it observes under
\* the lock is the result of whole locked sections, never a mixture of two
\* sections in progress.
C1_Step ==
  /\ \A id \in Ids : Cardinality({h \in Handles : id \in holds'[h]}) <= 1
  /\ \A h \in Handles, id \in Ids :
       (id \in holds[h] /\ id \in holds'[h] /\ buf'[id] # buf[id]) => actor' = h

C1_ExclusiveLockedSections == [][C1_Step]_vars

\* a handle writes a second card under the lock while the other handle is
\* blocked in lock
C1_Witness ==
  \E h \in Handles, g \in Handles :
    /\ h # g
    /\ InSection(h) /\ actor = h /\ ret.op = "hput"
    /\ pc[g] = "in_lock" /\ s_buf[g] = s_buf[h]
    /\ Len(buf[s_buf[h]]) = 2

\* C2: the scoped form of lock releases the lock on every exit path: when the
\* call given a block returns or fails (the release primitive itself not having
\* failed), the calling handle holds no lock and the caller receives the body's
\* own outcome, whatever the body did with the handle.
C2_ScopedLockReleases ==
  \A h \in Handles :
    (actor = h /\ ret.op = "lock_block" /\ ret.err # "UnlockError")
      => (holds[h] = {} /\ ret.err = ret.arg[1])

\* C3: attach on an attached handle fails with AlreadyAttached for every id and
\* every create argument, does not call the attach primitive and leaves the
\* attachment as it is.
C3_Step ==
  \A h \in Handles :
    (Attached(h) /\ pc[h] = "idle" /\ actor' = h /\ ret'.op = "attach")
      => /\ ret'.err = "AlreadyAttached"
         /\ s_buf'[h] = s_buf[h]
         /\ s_instance_id'[h] = s_instance_id[h]
         /\ pc'[h] = "idle"
         /\ "hashpipe_status_attach" \notin ret'.prims

C3_AttachOnAttached == [][C3_Step]_vars

\* C4: attach(id, create=false) on a detached handle with no segment for id
\* fails with NotFound, calls no attach primitive, creates nothing and leaves
\* the handle detached; in every other case on a detached handle the call is
\* not rejected and goes on to the open-or-create primitive.
C4_Step ==
  /\ \A h \in Handles :
       (~Attached(h) /\ pc[h] = "idle" /\ actor' = h /\ ret'.op = "attach")
         => IF ret'.arg[2] = "false" /\ ret'.arg[1] \notin segs
            THEN /\ ret'.err = "NotFound"
                 /\ "hashpipe_status_attach" \notin ret'.prims
                 /\ pc'[h] = "idle"
                 /\ s_buf'[h] = NULL
                 /\ segs' = segs
            ELSE /\ ret'.err = "blocked"
                 /\ pc'[h] = "in_attach"
  /\ \A h \in Handles :
       (pc[h] = "in_attach" /\ actor' = h)
         => "hashpipe_status_attach" \in ret'.prims

C4_AttachNotFound == [][C4_Step]_vars

\* attach(99, false) was refused on a detached handle while segment 7 exists
C4_Witness ==
  \E h \in Handles :
    /\ actor = h /\ ret.op = "attach" /\ ret.err = "NotFound"
    /\ ret.arg = <<99, "false">>
    /\ s_buf[h] = NULL /\ segs = {7}

\* C5: detach on a detached handle succeeds without calling the detach
\* primitive; on an attached handle a failing primitive gives DetachFailed and
\* leaves buffer and instance_id as they were, a succeeding one leaves the
\* handle detached.
C5_Step ==
  \A h \in Handles :
    (pc[h] = "idle" /\ actor' = h /\ ret'.op = "detach")
      => IF ~Attached(h)
         THEN ret'.err = "ok" /\ ret'.prims = {} /\ s_buf'[h] = NULL
         ELSE /\ ret'.prims = {"hashpipe_status_detach"}
              /\ ret'.arg[1] # 0 =>
                   /\ ret'.err = "DetachFailed"
                   /\ s_buf'[h] = s_buf[h]
                   /\ s_instance_id'[h] = s_instance_id[h]
              /\ ret'.arg[1] = 0 => (ret'.err = "ok" /\ s_buf'[h] = NULL)

C5_Detach == [][C5_Step]_vars

\* a detach failed and the handle is still attached to its instance
C5_Witness ==
  \E h \in Handles :
    /\ actor = h /\ ret.op = "detach" /\ ret.err = "DetachFailed"
    /\ s_buf[h] = 7 /\ s_instance_id[h] = 7

\* C6: when the attach primitive fails, attach fails with AttachFailed and the
\* handle is as before the call (detached, same fields); buffer and instance_id
\* are written only in the step in which the primitive succeeded.
C6_Step ==
  \A h \in Handles :
    (actor' = h /\ ret'.op = "attach")
      => /\ (pc[h] = "in_attach" /\ ret'.arg[2] # 0)
              => /\ ret'.err = "AttachFailed"
                 /\ s_buf[h] = NULL /\ s_buf'[h] = NULL
                 /\ s_instance_id'[h] = s_instance_id[h]
         /\ (s_buf'[h] # s_buf[h] \/ s_instance_id'[h] # s_instance_id[h])
              => (pc[h] = "in_attach" /\ ret'.arg[2] = 0 /\ ret'.err = "ok")

C6_NoPartialAttach == [][C6_Step]_vars

\* an attach to 99 failed in the primitive on a handle that was attached to 7 before
C6_Witness ==
  \E h \in Handles :
    /\ actor = h /\ ret.op = "attach" /\ ret.err = "AttachFailed"
    /\ ret.arg[1] = 99
    /\ s_buf[h] = NULL /\ s_instance_id[h] = 7

\* C7: every typed put, numeric or string, that fits neither in place nor as a
\* new card fails with CapacityExceeded and leaves the buffer as it was; a put
\* that returns success has stored its key.
C7_Step ==
  \A h \in Handles :
    (Attached(h) /\ pc[h] = "idle" /\ actor' = h /\ ret'.op \in {"hput", "hputs"})
      => LET key == IF ret'.op = "hput" THEN ret'.arg[2] ELSE ret'.arg[1]
             b == buf[s_buf[h]]
         IN /\ (Find(b, key) = 0 /\ Len(b) >= MaxCards)
                 => (ret'.err = "CapacityExceeded" /\ buf' = buf)
            /\ ret'.err = "ok" => Find(buf'[s_buf[h]], key) # 0

C7_PutCapacityExceeded == [][C7_Step]_vars

\* C8: a put<T>(key, v) that returned success, followed at once by get<T>(key),
\* gives back exactly v, for the numeric types and for strings.
C8_Step ==
  \A h \in Handles :
    (actor = h /\ actor' = h /\ ret.err = "ok" /\ ret'.err = "ok")
      => /\ (ret.op = "hput" /\ ret'.op = "hget" /\ ret'.arg = <<ret.arg[1], ret.arg[2]>>)
              => ret'.val = Some(ret.arg[3])
         /\ (ret.op = "hputs" /\ ret'.op = "hgets" /\ ret'.arg = <<ret.arg[1]>>)
              => ret'.val = Some(ret.arg[2])

C8_PutGetRoundTrip == [][C8_Step]_vars

\* C9: delete on an attached handle never fails; on a present key it returns
\* the card's value text, removes that card alone, the others keeping their
\* order, and the key then reads as absent; on an absent key it returns absent
\* and changes nothing.
Without(b, key) == SelectSeq(b, LAMBDA c : c.key # key)

C9_Step ==
  \A h \in Handles :
    (Attached(h) /\ pc[h] = "idle" /\ actor' = h /\ ret'.op = "delete")
      => LET key == ret'.arg[1]
             b == buf[s_buf[h]]
             b2 == buf'[s_buf[h]]
         IN /\ ret'.err = "ok"
            /\ \A i \in Ids \ {s_buf[h]} : buf'[i] = buf[i]
            /\ IF \E i \in 1..Len(b) : b[i].key = key
               THEN /\ \E i \in 1..Len(b) : b[i].key = key /\ ret'.val = Some(b[i].val)
                    /\ b2 = Without(b, key)
                    /\ Len(b2) = Len(b) - 1
                    /\ hgets(b2, key) = Nil
                    /\ \A tc \in NumTypes : hget(tc, b2, key) = Nil
               ELSE ret'.val = Nil /\ b2 = b

C9_Delete == [][C9_Step]_vars

\* K2, holding 42, was deleted and the cards around it are left in order
C9_Witness ==
  \E h \in Handles :
    /\ actor = h /\ ret.op = "delete" /\ ret.arg = <<"K2">>
    /\ ret.val = Some(<<"4", "2">>)
    /\ s_buf[h] = 7 /\ Len(buf[7]) = 2
    /\ buf[7][1].key = "NPKTS" /\ buf[7][2].key = "K3"

\* C10: after clear on an attached handle the length is that of the END card
\* alone and every key reads as absent; clear takes and releases the lock by
\* itself: on an attached handle it is not refused, it completes whenever the
\* lock is free, and the lock is free when it has returned.
C10_ClearEmpties ==
  \A h \in Handles :
    /\ (actor = h /\ ret.op = "clear" /\ ret.err = "ok")
         => LET b == buf[s_buf[h]]
            IN /\ gethlength(b) = HASHPIPE_STATUS_RECORD_SIZE
               /\ \A k \in Keys : hgets(b, k) = Nil
               /\ \A k \in Keys, tc \in NumTypes : hget(tc, b, k) = Nil
               /\ ~locked[s_buf[h]]
               /\ pc[h] = "idle"
    /\ (actor = h /\ ret.op = "clear" /\ ret.err # "ok")
         => IF Attached(h) THEN ret.err = "blocked" /\ pc[h] = "in_clear"
            ELSE ret.err = "NotAttached"
    /\ (pc[h] = "in_clear" /\ ~locked[s_buf[h]])
         => ENABLED rb_hps_clear_blocking_func(h)

\* a full buffer was cleared by a handle that holds no lock
C10_Witness ==
  \E h \in Handles :
    /\ actor = h /\ ret.op = "clear" /\ ret.err = "ok"
    /\ ret.arg = <<(MaxCards + 1) * HASHPIPE_STATUS_RECORD_SIZE>>
    /\ holds[h] = {} /\ buf[s_buf[h]] = <<>>

\* C11: on a detached handle, each of lock, unlock, clear!, buf, length, every
\* typed get, every typed put and delete fails with NotAttached, calls no
\* primitive of the library (no lock primitive, no read or write of a buffer),
\* changes no buffer and no lock, and leaves the handle detached.
AttachedOps ==
  {"lock", "unlock", "clear", "buf", "length", "hget", "hgets", "hput", "hputs", "delete"}

C11_Step ==
  \A h \in Handles :
    (~Attached(h) /\ pc[h] = "idle" /\ actor' = h /\ ret'.op \in AttachedOps) =>
      /\ ret'.err = "NotAttached"
      /\ ret'.prims = {}
      /\ buf' = buf /\ locked' = locked /\ holds' = holds
      /\ ~Attached(h)' /\ pc'[h] = "idle"

C11_DetachedFailsNotAttached == [][C11_Step]_vars

\* a handle that was attached and has detached got NotAttached from a typed put
C11_Witness ==
  \E h \in Handles :
    /\ ~Attached(h) /\ s_instance_id[h] # 0
    /\ actor = h /\ ret.op = "hput" /\ ret.err = "NotAttached" /\ ret.prims = {}

\* C12: typed get, typed put and delete neither take nor release a lock: after
\* each of them every lock is as it was and every handle holds what it held; so,
\* between one handle's lock and its unlock, the buffer is changed by that
\* handle's calls only when the other handles lock before they access it.
AccessorOps == {"hget", "hgets", "hput", "hputs", "delete"}

C12_Step ==
  /\ ret'.op \in AccessorOps =>
       /\ locked' = locked /\ holds' = holds /\ depth' = depth
       /\ "hashpipe_status_lock" \notin ret'.prims
       /\ "hashpipe_status_unlock" \notin ret'.prims
  /\ \A h \in Handles :
       (InSection(h) /\ InSection(h)' /\ actor' # h) => buf'[s_buf[h]] = buf[s_buf[h]]

C12_AccessorsLeaveLock == [][C12_Step]_vars

\* a handle wrote a second card inside its locked section while the other handle,
\* attached to the same instance, is blocked in lock
C12_Witness ==
  \E h \in Handles, g \in Handles :
    /\ g # h /\ InSection(h) /\ s_buf[g] = s_buf[h] /\ pc[g] = "in_lock"
    /\ actor = h /\ ret.op = "hput" /\ ret.err = "ok"
    /\ Len(buf[s_buf[h]]) = 2

\* C13: attached? and instance_id never fail and change neither the handle, the
\* buffer nor the lock; instance_id is present exactly when the handle is
\* attached, and is then the id of the latest successful attach (the one the
\* handle is bound to); after a successful detach it is absent.
C13_Step ==
  \A h \in Handles :
    /\ (actor' = h /\ ret'.op \in {"attached?", "instance_id"}) =>
         /\ ret'.err = "ok" /\ ret'.prims = {}
         /\ UNCHANGED <<segs, buf, locked, holds, s_buf, s_instance_id, pc, tmp, depth>>
    /\ (actor' = h /\ ret'.op = "attached?") => ret'.val = Some(Attached(h))
    /\ (actor' = h /\ ret'.op = "instance_id") =>
         ret'.val = IF Attached(h) THEN Some(s_buf[h]) ELSE Nil
    /\ (actor' = h /\ ret'.op = "attach" /\ ret'.err = "ok") =>
         /\ s_buf'[h] = ret'.arg[1]
         /\ s_instance_id'[h] = ret'.arg[1]
    /\ (actor' = h /\ ret'.op = "detach" /\ ret'.err = "ok") => ~Attached(h)'
    /\ Attached(h)' => s_instance_id'[h] = s_buf'[h]

C13_PureQueries == [][C13_Step]_vars

\* instance_id answered nil to a handle that was attached to 99 and has detached
C13_Witness ==
  \E h \in Handles :
    /\ actor = h /\ ret.op = "instance_id" /\ ret.val = Nil
    /\ ~Attached(h) /\ s_instance_id[h] = 99

\* C14: when hashpipe_status_lock fails, lock raises LockError: the call has
\* returned, nothing is acquired (every lock and every handle's holding is as
\* before), the body of a given block is not entered, unlock is not called, and
\* the primitive was called once only (no retry).
C14_Step ==
  \A h \in Handles :
    (pc[h] = "in_lock" /\ actor' = h /\ ret'.op = "lock" /\ ret'.arg[2] # 0) =>
      /\ ret'.err = "LockError"
      /\ pc'[h] = "idle"
      /\ locked' = locked /\ holds' = holds
      /\ depth' = depth
      /\ ret'.prims = {"hashpipe_status_lock"}

C14_NoPartialLock == [][C14_Step]_vars

\* lock with a block failed with LockError: the handle is idle, outside any body
\* and holds nothing
C14_Witness ==
  \E h \in Handles :
    /\ actor = h /\ ret.op = "lock" /\ ret.err = "LockError" /\ ret.arg = <<TRUE, 1>>
    /\ Attached(h) /\ pc[h] = "idle" /\ depth[h] = 0 /\ holds[h] = {}

\* C15: a clear! called by an attached handle returns once no other handle holds
\* the lock of its segment, whatever the caller itself holds: a handle inside
\* clear! whose segment's lock no other handle holds can complete the call.
C15_ClearReturns ==
  \A h \in Handles :
    (pc[h] = "in_clear" /\ \A g \in Handles \ {h} : s_buf[h] \notin holds[g])
      => ENABLED rb_hps_clear_blocking_func(h)

\* C16: a handle blocked in lock does not stay blocked for ever when every
\* holder goes on to release the lock and the lock is fair: the call returns, and
\* it returns either with the lock acquired or, interrupted (rc # 0), with
\* LockError and nothing acquired; an interrupted attach returns AttachFailed
\* with the handle still detached.
C16_Step ==
  \A h \in Handles :
    /\ (pc[h] = "in_lock" /\ pc'[h] # "in_lock") =>
         /\ actor' = h /\ ret'.op = "lock" /\ pc'[h] = "idle"
         /\ ret'.arg[2] = 0 =>
              (ret'.err \in {"ok", "yield"} /\ s_buf[h] \in holds'[h] /\ locked'[s_buf[h]])
         /\ ret'.arg[2] # 0 =>
              (ret'.err = "LockError" /\ holds' = holds /\ locked' = locked)
    /\ (pc[h] = "in_attach" /\ pc'[h] # "in_attach" /\ ret'.arg[2] # 0) =>
         (ret'.err = "AttachFailed" /\ ~Attached(h)' /\ pc'[h] = "idle")

C17_HolderAttached ==
  \A h \in Handles, id \in Ids : (locked[id] /\ id \in holds[h]) => Attached(h)

\* C18: an attach called with create = false creates no segment, whatever other
\* processes create or destroy meanwhile: when every attach is called with
\* create = false, no step of a handle adds a segment.
C18_Step ==
  \A h \in Handles : (actor' = h /\ ret'.op = "attach") => segs' \subseteq segs

C18_AttachNoCreate == [][C18_Step]_vars

\* C19: a typed integer put stores the value it was given: after a put of v that
\* returned normally and had a slot for its card, the card of the key holds the
\* base-10 text of v (a v outside the width of the type is refused, not stored
\* reduced modulo 2^w).
C19_Step ==
  \A h \in Handles :
    (actor' = h /\ ret'.op = "hput" /\ ret'.err = "ok"
       /\ hput_rc(buf[s_buf[h]], ret'.arg[2]) = 0)
      => LET b == buf'[s_buf[h]]
         IN /\ Find(b, ret'.arg[2]) # 0
            /\ b[Find(b, ret'.arg[2])].val = IntToText(ret'.arg[3])

C19_PutStoresGiven == [][C19_Step]_vars

====
